---- MODULE Spec2Model ----
(***************************************************************************)
(* Model of the Yandex SpeechKit plugin:                                   *)
(*   tools/text_to_speech.py       TextToSpeechTool                        *)
(*   tools/speech_to_text.py       SpeechToTextTool                        *)
(*   provider/yandex_speechkit.py  YandexSpeechkitProvider                 *)
(* One invocation at a time: the host calls _invoke, the tool checks its   *)
(* inputs, sends at most one HTTP request, and maps the response either to *)
(* yielded result messages or to a raised exception.                       *)
(*                                                                         *)
(* Python strings are sequences of string fragments (characters for the    *)
(* synthesis text, whole fragments for messages); f-strings and joins are  *)
(* concatenations of such sequences.                                       *)
(***************************************************************************)
EXTENDS Integers, Sequences, FiniteSets, TLC

VARIABLES
    pc,               \* "idle" | "waiting" (request in flight) | "done"
    tool,             \* "none" | "tts" | "stt" | "provider": what is invoked
    tool_parameters,  \* the parameter mapping of the current invocation
    credentials,      \* the credential mapping of the current invocation
    params,           \* TTS: the validated parameters (NoParams before validation)
    requests,         \* sequence of HTTP requests sent to the speech endpoint
    results,          \* sequence of messages yielded by _invoke
    error,            \* the exception _invoke raised (NoError if none)
    response,         \* the endpoint's answer to the request (NoResponse if none)
    environ,          \* STT: what the runtime, the network and the codec library do
    audio_data,       \* STT: the value acquisition returned
    trace,            \* the acquisition strategies, parses and transcodes done;
                      \* provider: the live call
    caught,           \* provider: the exception of the live call (NoError if none)
    pcm_data          \* STT: the PCM and sample rate the WAV parse returned

vars == <<pc, tool, tool_parameters, credentials, params, requests, results,
          error, response, environ, audio_data, trace, caught, pcm_data>>

----------------------------------------------------------------------------
(* Bounds of the model *)

\* Extra characters of padding in the generated synthesis texts.
MaxPad == 1

----------------------------------------------------------------------------
(* Strings *)

Min(a, b) == IF a < b THEN a ELSE b

\* n copies of the character c
Rep(c, n) == [i \in 1..n |-> c]

\* s[:n]
Take(s, n) == SubSeq(s, 1, Min(n, Len(s)))

\* pat in s (contiguous)
Contains(s, pat) ==
    \E i \in 0..(Len(s) - Len(pat)) :
        \A j \in 1..Len(pat) : s[i + j] = pat[j]

\* s.startswith(pat)
StartsWith(s, pat) ==
    /\ Len(pat) <= Len(s)
    /\ \A j \in 1..Len(pat) : s[j] = pat[j]

\* s.lstrip()
RECURSIVE LStrip(_)
LStrip(s) == IF s # <<>> /\ Head(s) = " " THEN LStrip(Tail(s)) ELSE s

\* s.rstrip()
RECURSIVE RStrip(_)
RStrip(s) ==
    IF s # <<>> /\ s[Len(s)] = " " THEN RStrip(SubSeq(s, 1, Len(s) - 1)) ELSE s

\* s.strip()
Strip(s) == RStrip(LStrip(s))

\* sep.join(parts), parts a sequence of strings
RECURSIVE Join(_, _)
Join(parts, sep) ==
    IF parts = <<>> THEN <<>>
    ELSE IF Len(parts) = 1 THEN parts[1]
    ELSE parts[1] \o sep \o Join(Tail(parts), sep)

\* dict.get(key, default)
Get(d, key, default) == IF key \in DOMAIN d THEN d[key] ELSE default

\* `if not api_key`, were the test left out
TruthyAlways(v) == TRUE

\* Python truthiness of a value of a credential or parameter mapping:
\* None and "" are falsy
Truthy(v) == v.t # "none" /\ ~(v.t = "str" /\ v.v = <<>>)

NoneVal == [t |-> "none", v |-> <<>>]
StrVal(s) == [t |-> "str", v |-> s]

----------------------------------------------------------------------------
(* Floats: a float is its value in tenths.  A speed parameter is a number, *)
(* a string spelling a number, any other string, or None.                  *)

Num(n) == [t |-> "num", v |-> n]
NumStr(n) == [t |-> "str", v |-> n]
BadStr == [t |-> "badstr", v |-> 0]
NoneSpeed == [t |-> "none", v |-> 0]

\* float(x): raises ValueError for a non-numeric string, TypeError for None
ToFloat(x) ==
    IF x.t \in {"num", "str"} THEN [ok |-> TRUE, v |-> x.v]
    ELSE [ok |-> FALSE, v |-> 0]

\* str(f) of a float f
FloatStr(f) == NumStr(f)

----------------------------------------------------------------------------
(* TextToSpeechTool: class constants *)

VOICE_DESCRIPTIONS ==
    {"marina", "alena", "filipp", "jane", "omazh", "ermil", "zahar", "madi_ru"}

VOICE_ALLOWED_EMOTIONS ==
    [v \in VOICE_DESCRIPTIONS |->
        CASE v = "marina"  -> {"neutral", "whisper", "friendly"}
          [] v = "alena"   -> {"neutral", "good"}
          [] v = "filipp"  -> {"neutral"}
          [] v = "jane"    -> {"neutral", "good", "evil"}
          [] v = "omazh"   -> {"neutral", "evil"}
          [] v = "ermil"   -> {"neutral", "good"}
          [] v = "zahar"   -> {"neutral", "good"}
          [] v = "madi_ru" -> {"neutral"}]

FORMAT_MIME ==
    [f \in {"mp3", "oggopus"} |->
        IF f = "mp3" THEN "audio/mpeg" ELSE "audio/ogg"]

\* the emotion names _validate_parameters accepts
EMOTIONS == {"neutral", "good", "evil", "friendly", "whisper"}

\* the formats accepted after the opus -> oggopus translation
FORMATS == {"mp3", "oggopus"}

\* maximum text length, in characters
TextLimit == 5000

\* speed range, in tenths
SpeedMin == 1
SpeedMax == 30

\* sorted(allowed): the emotion names in alphabetical order
SortedEmotions(S) ==
    SelectSeq(<<"evil", "friendly", "good", "neutral", "whisper">>,
              LAMBDA e : e \in S)

\* ", ".join(sorted(allowed))
AllowedList(S) ==
    Join([i \in 1..Len(SortedEmotions(S)) |-> <<SortedEmotions(S)[i]>>], <<", ">>)

----------------------------------------------------------------------------
(* TextToSpeechTool._validate_parameters *)

NoParams == [ok |-> FALSE]

TextErrors(text) ==
    IF text = <<>> THEN << <<"Text content is required">> >>
    ELSE IF Len(text) > TextLimit
         THEN << <<"Text is too long (maximum 5000 characters)">> >>
         ELSE <<>>

VoiceErrors(voice) ==
    IF voice \notin VOICE_DESCRIPTIONS
    THEN << <<"Invalid voice: ", voice>> >> ELSE <<>>

EmotionErrors(emotion) ==
    IF emotion \notin EMOTIONS
    THEN << <<"Invalid emotion: ", emotion>> >> ELSE <<>>

\* line 67, were the two ends of the range left out
SpeedErrorsExclusive(raw) ==
    IF ToFloat(raw).ok
    THEN IF ~(SpeedMin < ToFloat(raw).v /\ ToFloat(raw).v < SpeedMax)
         THEN << <<"Speed must be between 0.1 and 3.0">> >> ELSE <<>>
    ELSE << <<"Speed must be a valid number">> >>

SpeedErrors(raw) ==
    IF ToFloat(raw).ok
    THEN IF ~(SpeedMin <= ToFloat(raw).v /\ ToFloat(raw).v <= SpeedMax)
         THEN << <<"Speed must be between 0.1 and 3.0">> >> ELSE <<>>
    ELSE << <<"Speed must be a valid number">> >>

\* lines 74-75, were the translation of opus left out
NormalizeFormatNoOpus(format_type) == format_type

\* API v1 expects 'oggopus' for Opus output
NormalizeFormat(format_type) ==
    IF format_type = "opus" THEN "oggopus" ELSE format_type

\* lines 76-77, were the format not checked
FormatErrorsNone(format_type) == <<>>

FormatErrors(format_type) ==
    IF format_type \notin FORMATS
    THEN << <<"Invalid format: ", format_type>> >> ELSE <<>>

\* line 83, were every emotion allowed for every voice
AllowedEmotionsAny(voice) == EMOTIONS

\* the voice's allowed emotions; {"neutral"} for a voice not in the table
AllowedEmotions(voice) ==
    IF voice \in DOMAIN VOICE_ALLOWED_EMOTIONS
    THEN VOICE_ALLOWED_EMOTIONS[voice] ELSE {"neutral"}

CompatErrors(voice, emotion) ==
    IF emotion \notin AllowedEmotions(voice)
    THEN << <<"Emotion '", emotion, "' is not supported by voice '", voice,
              "'. Allowed: ">> \o AllowedList(AllowedEmotions(voice)) >>
    ELSE <<>>

\* lines 50-77, were validation to stop at the first rule that fails
BasicErrorsFirstOnly(text, voice, emotion, raw_speed, format_type) ==
    LET all == TextErrors(text) \o VoiceErrors(voice)
               \o EmotionErrors(emotion) \o SpeedErrors(raw_speed)
               \o FormatErrors(format_type)
    IN  IF all = <<>> THEN <<>> ELSE <<all[1]>>

\* lines 50-77: the errors list before the first `if errors: raise`
BasicErrors(text, voice, emotion, raw_speed, format_type) ==
    TextErrors(text) \o VoiceErrors(voice)
    \o EmotionErrors(emotion) \o SpeedErrors(raw_speed)
    \o FormatErrors(format_type)

\* Returns [ok, msg, params]: ok = FALSE stands for `raise ValueError(msg)`.
validate_parameters(tp) ==
    LET text        == Strip(Get(tp, "text", <<>>))
        voice       == Get(tp, "voice", "marina")
        emotion     == Get(tp, "emotion", "neutral")
        raw_speed   == Get(tp, "speed", Num(10))
        format_type == NormalizeFormat(Get(tp, "format", "mp3"))
        errors      == BasicErrors(text, voice, emotion, raw_speed, format_type)
        errors2     == CompatErrors(voice, emotion)
    IN  IF errors # <<>>
        THEN [ok |-> FALSE, msg |-> Join(errors, <<"; ">>), params |-> NoParams]
        ELSE IF errors2 # <<>>
        THEN [ok |-> FALSE, msg |-> Join(errors2, <<"; ">>), params |-> NoParams]
        ELSE [ok |-> TRUE, msg |-> <<>>,
              params |-> [ok      |-> TRUE,
                          text    |-> text,
                          voice   |-> voice,
                          emotion |-> emotion,
                          speed   |-> FloatStr(ToFloat(raw_speed).v),
                          format  |-> format_type]]

----------------------------------------------------------------------------
(* HTTP responses and JSON bodies *)

\* A JSON value is [t, v, m]: null/absent, a string v, a nested object with
\* members m (the "error" member) or a list/object known by its str() v (the
\* "details" member).
NoMembers == [none |-> TRUE]
JNone == [t |-> "none", v |-> <<>>, m |-> NoMembers]
JStr(s) == [t |-> "str", v |-> s, m |-> NoMembers]
JRepr(s) == [t |-> "list", v |-> s, m |-> NoMembers]
JErr(code, error_code, message, error_message) ==
    [t |-> "dict", v |-> <<>>,
     m |-> [code |-> code, error_code |-> error_code,
            message |-> message, error_message |-> error_message]]

\* bool(x) of a JSON value
JTruthy(x) ==
    CASE x.t = "none" -> FALSE
      [] x.t = "str"  -> x.v # <<>>
      [] x.t = "list" -> x.v \notin {<<"[]">>, <<"{}">>}
      [] x.t = "dict" -> \E k \in DOMAIN x.m : x.m[k].t # "none"

\* x or y
JOr(x, y) == IF JTruthy(x) THEN x ELSE y

\* A response body seen through response.json():
\*   [t |-> "invalid"]  json() raises, the body is not JSON
\*   [t |-> "list"]     a JSON document that is not an object
\*   [t |-> "dict", m |-> members]  an object; an absent member is JNone
JInvalid == [t |-> "invalid", m |-> NoMembers]
JList == [t |-> "list", m |-> NoMembers]
JDict(err, code, error_code, message, error_message, details, result) ==
    [t |-> "dict",
     m |-> [error |-> err, code |-> code, error_code |-> error_code,
            message |-> message, error_message |-> error_message,
            details |-> details, result |-> result]]

\* requests.post outcome: an HTTP response, or a transport exception
HttpResponse(status, content, json, text) ==
    [kind |-> "http", status_code |-> status, content |-> content,
     json |-> json, text |-> text]
TransportFailure(kind, text) ==
    [kind |-> kind, status_code |-> 0, content |-> <<>>,
     json |-> JInvalid, text |-> text]
NoResponse == [kind |-> "none"]

\* raised exceptions
NoError == [raised |-> FALSE]
Raise(type, msg) == [raised |-> TRUE, type |-> type, msg |-> msg]

\* yielded messages
create_text_message(text) == [type |-> "text", text |-> text]
create_json_message(json) == [type |-> "json", json |-> json]
create_blob_message(blob, meta) == [type |-> "blob", blob |-> blob, meta |-> meta]

\* error bodies are cut to this many characters
BodyCut == 200

----------------------------------------------------------------------------
(* TextToSpeechTool._invoke *)

TTS_URL == "https://tts.api.cloud.yandex.net/speech/v1/tts:synthesize"

\* line 142, were the emotion added to every request
SendsEmotionAlways(emotion) == TRUE

\* line 142: Add emotion only if not neutral
SendsEmotion(emotion) == emotion # "neutral"

\* the form body of the synthesis request
TTSRequestData(p) ==
    LET key  == IF StartsWith(LStrip(p.text), <<"<", "s", "p", "e", "a", "k">>)
                THEN "ssml" ELSE "text"
        base == (key :> p.text) @@
                [voice |-> p.voice, speed |-> p.speed,
                 format |-> p.format, lang |-> "ru-RU"]
    IN  IF SendsEmotion(p.emotion) THEN base @@ [emotion |-> p.emotion] ELSE base

TTSRequest(api_key, p) ==
    [url     |-> TTS_URL,
     headers |-> [Authorization |-> <<"Api-Key ">> \o api_key.v],
     data    |-> TTSRequestData(p),
     timeout |-> 30]

\* lines 107-146: up to the request.  [raise, msg, params]
TTSPrepare(tp, cr) ==
    LET api_key == Get(cr, "api_key", NoneVal)
        v       == validate_parameters(tp)
    IN  IF ~Truthy(api_key)
        THEN [raise |-> TRUE, msg |-> <<"API key is required">>, params |-> NoParams]
        ELSE IF ~v.ok
        THEN [raise |-> TRUE, msg |-> <<"Parameter error: ">> \o v.msg,
              params |-> NoParams]
        ELSE [raise |-> FALSE, msg |-> <<>>, params |-> v.params]

\* lines 152-179: the text appended to "API error: <status>"
TTSErrorDetail(r) ==
    LET fallback == <<" - ">> \o Take(r.text, BodyCut)
    IN  IF r.json.t # "dict" THEN fallback
        ELSE
        LET d      == r.json.m
            nested == d.error
            code   == IF nested.t = "dict"
                      THEN JOr(nested.m.code, nested.m.error_code)
                      ELSE JOr(d.error_code, d.code)
            msg0   == IF nested.t = "dict"
                      THEN JOr(nested.m.message, nested.m.error_message)
                      ELSE JOr(d.message, d.error_message)
            msg    == IF ~JTruthy(msg0) /\ d.details.t = "list"
                      THEN JStr(Take(d.details.v, BodyCut)) ELSE msg0
        IN  (IF JTruthy(code) THEN <<" [">> \o code.v \o <<"]">> ELSE <<>>)
            \o (IF JTruthy(msg) THEN <<" - ">> \o msg.v ELSE <<>>)

\* lines 150-188: the message of the exception raised for a non-200 answer
TTSErrorMsg(r, p) ==
    <<"API error: ", ToString(r.status_code)>> \o TTSErrorDetail(r)
    \o <<" | voice=", p.voice, ", emotion=", p.emotion, ", speed=">>
    \o <<ToString(p.speed.v)>> \o <<", format=", p.format>>

\* line 225, were the format name used as the extension
ExtensionIsFormat(format) == format

\* line 225: the file extension of the blob
Extension(format) == IF format = "oggopus" THEN "ogg" ELSE format

\* lines 212-234: the two messages of a successful synthesis
TTSMessages(p, audio_content) ==
    LET ext == Extension(p.format)
    IN  << create_json_message(
               [voice       |-> p.voice,
                emotion     |-> p.emotion,
                speed       |-> p.speed,
                format      |-> IF p.format = "oggopus" THEN "opus" ELSE p.format,
                text_length |-> Len(p.text)]),
           create_blob_message(
               audio_content,
               [mime_type |-> Get(FORMAT_MIME, p.format, "application/octet-stream"),
                filename  |-> <<"speech.", ext>>]) >>

\* lines 146-244: what _invoke does with the outcome of requests.post.
\* [msgs, err]
TTSHandle(r, p) ==
    CASE r.kind = "timeout" ->
            [msgs |-> <<>>,
             err  |-> Raise("Exception",
                        <<"Request timeout. Please try again with shorter text.">>)]
      [] r.kind = "neterr" ->
            [msgs |-> <<>>,
             err  |-> Raise("Exception", <<"Network error: ">> \o r.text)]
      [] r.kind = "http" /\ r.status_code # 200 ->
            [msgs |-> <<>>, err |-> Raise("Exception", TTSErrorMsg(r, p))]
      [] r.kind = "http" /\ r.status_code = 200 /\ r.content = <<>> ->
            [msgs |-> <<>>,
             err  |-> Raise("Exception", <<"Empty response from TTS service">>)]
      [] OTHER ->
            [msgs |-> TTSMessages(p, r.content), err |-> NoError]

----------------------------------------------------------------------------
(* Audio: what a byte string holds.  A WAV container has a header (frame   *)
(* rate, sample width in bytes, channel count) and frames, each a tuple of *)
(* one sample per channel; any other encoding is known by what a decoder   *)
(* would get out of it (decodable or not); the empty byte string is empty. *)

Wav(rate, width, channels, frames) ==
    [fmt |-> "wav", rate |-> rate, width |-> width, channels |-> channels,
     frames |-> frames, decodable |-> TRUE]
Foreign(decodable, rate, channels, frames) ==
    [fmt |-> "foreign", rate |-> rate, width |-> 2, channels |-> channels,
     frames |-> frames, decodable |-> decodable]
EmptyBytes ==
    [fmt |-> "empty", rate |-> 0, width |-> 0, channels |-> 0,
     frames |-> <<>>, decodable |-> FALSE]

\* 16-bit sample range
MinSample == -32768
MaxSample == 32767

\* a 16-bit store that keeps the low 16 bits of the product
ClipWraps(x) == ((x - MinSample) % (MaxSample - MinSample + 1)) + MinSample

\* audioop's fbound: saturate to the 16-bit range
Clip(x) == IF x < MinSample THEN MinSample ELSE IF x > MaxSample THEN MaxSample ELSE x

\* floor(sqrt(x)), x >= 0
Isqrt(x) == CHOOSE r \in 0..(MaxSample + 1) : r * r <= x /\ x < (r + 1) * (r + 1)

\* the sum of the squares of the samples, by halves
RECURSIVE SumSquares(_)
SumSquares(s) ==
    IF s = <<>> THEN 0
    ELSE IF Len(s) = 1 THEN s[1] * s[1]
    ELSE SumSquares(SubSeq(s, 1, Len(s) \div 2))
         + SumSquares(SubSeq(s, Len(s) \div 2 + 1, Len(s)))

\* audioop.rms(raw, 2): 0 for an empty fragment
Rms(samples) ==
    IF samples = <<>> THEN 0 ELSE Isqrt(SumSquares(samples) \div Len(samples))

\* audioop.tomono(raw, 2, 0.5, 0.5) on stereo frames
ToMono(frames) ==
    [i \in 1..Len(frames) |-> Clip((frames[i][1] + frames[i][2]) \div 2)]

\* audioop.mul(raw, 2, gain)
Mul(samples, gain) == [i \in 1..Len(samples) |-> Clip(samples[i] * gain)]

\* RMS thresholds of the gain normalization
QuietRms == 300
LowRms == 1000

\* lines 273-278: the gain chosen for a signal of the given RMS
Gain(rms) ==
    IF rms # 0 /\ rms < QuietRms THEN 4
    ELSE IF rms # 0 /\ rms < LowRms THEN 2
    ELSE 1

----------------------------------------------------------------------------
(* SpeechToTextTool._convert_wav_to_pcm and _convert_audio_to_wav *)

NoPcm == [samples |-> <<>>, rate |-> 0]

\* line 260, were the width compared in bits
WidthSupportedInBits(sample_width) == sample_width = 16

\* line 260, were the width not looked at
WidthSupportedAny(sample_width) == TRUE

\* line 260: sample_width is in bytes
WidthSupported(sample_width) == sample_width = 2

\* lines 265-268, were stereo frames left as they are
DownmixNone(a) ==
    IF a.channels > 1
    THEN [i \in 1..(2 * Len(a.frames)) |-> a.frames[(i + 1) \div 2][2 - (i % 2)]]
    ELSE [i \in 1..Len(a.frames) |-> a.frames[i][1]]

\* lines 265-268: readframes, then tomono when there is more than one channel
Downmix(a) ==
    IF a.channels > 1 THEN ToMono(a.frames)
    ELSE [i \in 1..Len(a.frames) |-> a.frames[i][1]]

\* [ok, pcm, msg, frames_read]; ok = FALSE stands for `raise ValueError(msg)`
convert_wav_to_pcm(a) ==
    IF a.fmt # "wav"
    THEN [ok |-> FALSE, pcm |-> NoPcm, frames_read |-> FALSE,
          msg |-> <<"Failed to process WAV file: ", "file does not start with RIFF id">>]
    ELSE IF ~WidthSupported(a.width)
    THEN [ok |-> FALSE, pcm |-> NoPcm, frames_read |-> FALSE,
          msg |-> <<"Failed to process WAV file: ", "Unsupported WAV sample width: ",
                    ToString(a.width * 8), " bits. Only 16-bit PCM supported">>]
    ELSE
    LET raw  == Downmix(a)
        gain == Gain(Rms(raw))
        out  == IF gain # 1 THEN Mul(raw, gain) ELSE raw
    IN  [ok |-> TRUE, pcm |-> [samples |-> out, rate |-> a.rate],
         frames_read |-> TRUE, msg |-> <<>>]

\* pydub: set_channels(1), set_frame_rate(16000), set_sample_width(2), export
\* as WAV.  [ok, wav, msg]; ok = FALSE stands for `raise ValueError(msg)`.
\* pydub_installed is the environment: whether `import pydub` succeeds.
convert_audio_to_wav(a, pydub_installed) ==
    IF ~pydub_installed
    THEN [ok |-> FALSE, wav |-> EmptyBytes,
          msg |-> <<"Audio conversion library not available">>]
    ELSE IF ~a.decodable
    THEN [ok |-> FALSE, wav |-> EmptyBytes,
          msg |-> <<"Failed to convert audio: ", "Decoding failed">>]
    ELSE [ok |-> TRUE, msg |-> <<>>,
          wav |-> Wav(16000, 2, 1,
                      [i \in 1..Len(a.frames) |->
                          <<IF a.channels > 1
                            THEN (a.frames[i][1] + a.frames[i][2]) \div 2
                            ELSE a.frames[i][1]>>])]

\* line 328, were the transcoding done whatever the first parse gave
NeedsTranscodeAlways(first) == TRUE

\* line 328: the bare except, taken when the first parse raised
NeedsTranscode(first) == ~first.ok

\* lines 324-333: direct parse, else transcode and parse again.
\* [ok, pcm, msg, steps]
Normalize(a, pydub_installed) ==
    LET first == convert_wav_to_pcm(a)
        conv  == convert_audio_to_wav(a, pydub_installed)
        again == convert_wav_to_pcm(conv.wav)
    IN  IF ~NeedsTranscode(first)
        THEN [ok |-> TRUE, pcm |-> first.pcm, msg |-> <<>>,
              steps |-> <<"parse">>]
        ELSE IF ~conv.ok
        THEN [ok |-> FALSE, pcm |-> NoPcm, msg |-> conv.msg,
              steps |-> <<"parse", "transcode">>]
        ELSE IF ~again.ok
        THEN [ok |-> FALSE, pcm |-> NoPcm, msg |-> again.msg,
              steps |-> <<"parse", "transcode", "parse">>]
        ELSE [ok |-> TRUE, pcm |-> again.pcm, msg |-> <<>>,
              steps |-> <<"parse", "transcode", "parse">>]

----------------------------------------------------------------------------
(* Audio references.  A capability of a reference (an attribute or a      *)
(* method) is known by what using it gives: [t, v] with t one of          *)
(*   "absent"  the reference has no such attribute                        *)
(*   "bytes"   it gives the byte string v                                 *)
(*   "obj"     it gives an object whose .content is the byte string v     *)
(*   "other"   it gives None                                              *)
(*   "raise"   it raises                                                  *)

Absent == [t |-> "absent", v |-> EmptyBytes]
GivesBytes(b) == [t |-> "bytes", v |-> b]
GivesObj(b) == [t |-> "obj", v |-> b]
GivesNone == [t |-> "other", v |-> EmptyBytes]
Raises == [t |-> "raise", v |-> EmptyBytes]

\* what acquisition returns: bytes, None, or some other object
BytesVal(b) == [t |-> "bytes", v |-> b]
NoneRet == [t |-> "none", v |-> EmptyBytes]
ObjectRet(b) == [t |-> "object", v |-> b]

\* a use of one capability of the reference or of the runtime
Call(op) == [op |-> op, url |-> "", timeout |-> 0]

\* requests.get(url, timeout=30)
HttpGet(url) == [op |-> "http_get", url |-> url, timeout |-> 30]

\* a step of the normalization pipeline
RECURSIVE Steps(_)
Steps(names) ==
    IF names = <<>> THEN <<>> ELSE <<Call(Head(names))>> \o Steps(Tail(names))

\* [ok, val, msg, calls]: ok = FALSE stands for a raised exception with
\* message msg; calls lists the strategies used, in order
AcqReturn(val, calls) == [ok |-> TRUE, val |-> val, msg |-> <<>>, calls |-> calls]
AcqRaise(msg, calls) == [ok |-> FALSE, val |-> NoneRet, msg |-> msg, calls |-> calls]

\* the value a capability hands back
CapValue(c) ==
    CASE c.t = "bytes" -> BytesVal(c.v)
      [] c.t = "obj"   -> ObjectRet(c.v)
      [] OTHER         -> NoneRet

\* lines 70-72 and 176-178, were the scheme compared without lower()
IsAbsoluteUrlCaseSensitive(u) == u \in {"http://host/a.wav"}

\* isinstance(url, str) and url.lower().startswith(("http://", "https://"))
IsAbsoluteUrl(u) == u \in {"http://host/a.wav", "HTTPS://host/a.wav"}

\* lines 95-101: the first of self.get_file_content, runtime.get_file_content,
\* runtime.get_file that exists is called and its value returned
RECURSIVE FirstAccessor(_, _)
FirstAccessor(accessors, i) ==
    IF i > 3 THEN 0
    ELSE IF accessors[i].t # "absent" THEN i
    ELSE FirstAccessor(accessors, i + 1)

\* lines 81-109, Case 1: lookup by identifier, then give up
AcquireById(f, env, calls) ==
    LET file_id == IF f.id \notin {"absent", ""} THEN f.id
                   ELSE IF f.related_id \notin {"absent", ""} THEN f.related_id
                   ELSE ""
        k       == FirstAccessor(env.accessors, 1)
        giveup  == <<"Could not read Dify File object: no blob/download/read/data/content available, ",
                     "no absolute URL, and SDK file fetch by id not supported in this runtime.">>
    IN  IF file_id = "" \/ k = 0 THEN AcqRaise(giveup, calls)
        ELSE IF env.accessors[k].t = "raise"
        THEN AcqRaise(giveup, calls \o <<Call("lookup")>>)
        ELSE AcqReturn(CapValue(env.accessors[k]), calls \o <<Call("lookup")>>)

\* lines 60-79, Case 1: the first of remote_url, url that is an attribute
AcquireByUrl(f, env, calls) ==
    LET remote_url == IF f.remote_url # "absent" THEN f.remote_url
                      ELSE IF f.url # "absent" THEN f.url
                      ELSE "absent"
    IN  IF IsAbsoluteUrl(remote_url)
        THEN IF env.http_get.t = "bytes"
             THEN AcqReturn(BytesVal(env.http_get.v), calls \o <<HttpGet(remote_url)>>)
             ELSE AcquireById(f, env, calls \o <<HttpGet(remote_url)>>)
        ELSE AcquireById(f, env, calls)

\* lines 53-58
AcquireByAttrs(f, env, calls) ==
    IF f.read.t # "absent"
    THEN IF f.read.t = "raise"
         THEN AcqRaise(<<"read failed">>, calls \o <<Call("read")>>)
         ELSE AcqReturn(CapValue(f.read), calls \o <<Call("read")>>)
    ELSE IF f.content.t # "absent"
    THEN AcqReturn(CapValue(f.content), calls \o <<Call("content")>>)
    ELSE IF f.data.t # "absent"
    THEN AcqReturn(CapValue(f.data), calls \o <<Call("data")>>)
    ELSE AcquireByUrl(f, env, calls)

\* lines 48-52
AcquireByBlob(f, env, calls) ==
    IF f.blob.t = "absent" THEN AcquireByAttrs(f, env, calls)
    ELSE IF f.blob.t = "raise"
    THEN AcqRaise(<<"blob failed">>, calls \o <<Call("blob")>>)
    ELSE IF f.blob.t = "bytes"
    THEN AcqReturn(BytesVal(f.blob.v), calls \o <<Call("blob")>>)
    ELSE AcquireByAttrs(f, env, calls \o <<Call("blob")>>)

\* lines 38-47, Case 1: an object with download() or .blob
AcquireObject(f, env) ==
    IF f.download.t = "absent" THEN AcquireByBlob(f, env, <<>>)
    ELSE IF f.download.t = "raise"
    THEN AcqRaise(<<"download failed">>, <<Call("download")>>)
    ELSE IF f.download.t = "bytes"
    THEN AcqReturn(BytesVal(f.download.v), <<Call("download")>>)
    ELSE IF f.download.t = "obj"
    THEN AcqReturn(BytesVal(f.download.v), <<Call("download")>>)
    ELSE AcquireByBlob(f, env, <<Call("download")>>)

\* lines 138-172, Case 5: the accessors in order; the first that gives bytes,
\* or an object with blob, content or download, wins
RECURSIVE DictLookup(_, _, _)
DictLookup(accessors, i, calls) ==
    IF i > Len(accessors) THEN [found |-> FALSE, val |-> NoneRet, calls |-> calls]
    ELSE IF accessors[i].t = "absent" THEN DictLookup(accessors, i + 1, calls)
    ELSE IF accessors[i].t \in {"bytes", "obj"}
    THEN [found |-> TRUE, val |-> BytesVal(accessors[i].v),
          calls |-> calls \o <<Call("lookup")>>]
    ELSE DictLookup(accessors, i + 1, calls \o <<Call("lookup")>>)

\* lines 131-191, Case 5: a metadata mapping
AcquireDict(d, env) ==
    LET related_id == IF Get(d, "related_id", "") # "" THEN d.related_id
                      ELSE Get(d, "id", "")
        look       == IF related_id # "" THEN DictLookup(env.accessors, 1, <<>>)
                      ELSE [found |-> FALSE, val |-> NoneRet, calls |-> <<>>]
        remote_url == IF Get(d, "remote_url", "") # "" THEN d.remote_url
                      ELSE Get(d, "url", "")
    IN  IF look.found THEN AcqReturn(look.val, look.calls)
        ELSE IF IsAbsoluteUrl(remote_url) /\ env.http_get.t = "bytes"
        THEN AcqReturn(BytesVal(env.http_get.v), look.calls \o <<HttpGet(remote_url)>>)
        ELSE AcqRaise(
                <<"Could not retrieve file bytes from provided metadata (no SDK method worked, ",
                  "and no absolute URL available).">>,
                IF IsAbsoluteUrl(remote_url)
                THEN look.calls \o <<HttpGet(remote_url)>> ELSE look.calls)

\* lines 121-123, were the bytes taken for a stream and read to its end
AcquireBytesAsStream(audio_file) ==
    AcqReturn(BytesVal(EmptyBytes), <<Call("read")>>)

\* lines 121-123, Case 3: bytes are handed back as they are
AcquireBytes(audio_file) == AcqReturn(BytesVal(audio_file.v), <<>>)

\* SpeechToTextTool._get_audio_data_from_file
get_audio_data_from_file(audio_file, env) ==
    CASE audio_file.kind = "object" /\
         (audio_file.download.t # "absent" \/ audio_file.blob.t # "absent") ->
            AcquireObject(audio_file, env)
      [] audio_file.kind = "object" /\ audio_file.download.t = "absent"
         /\ audio_file.blob.t = "absent" /\ audio_file.read.t # "absent" ->
            \* Case 2: file-like object
            IF audio_file.read.t = "raise"
            THEN AcqRaise(<<"read failed">>, <<Call("read")>>)
            ELSE AcqReturn(CapValue(audio_file.read), <<Call("read")>>)
      [] audio_file.kind = "bytes" ->
            AcquireBytes(audio_file)
      [] audio_file.kind = "path" ->
            IF audio_file.exists
            THEN AcqReturn(BytesVal(audio_file.v), <<Call("open")>>)
            ELSE AcqRaise(<<"No such file or directory">>, <<Call("open")>>)
      [] audio_file.kind = "dict" ->
            AcquireDict(audio_file.d, env)
      [] OTHER ->
            AcqRaise(<<"Unsupported audio file type: ", audio_file.kind,
                       ". Expected Dify File object with .blob property.">>, <<>>)

----------------------------------------------------------------------------
(* SpeechToTextTool._invoke *)

STT_URL == "https://stt.api.cloud.yandex.net/speech/v1/stt:recognize"

NoRef == [kind |-> "none"]

\* `not audio_file`: None, b"" and "" are falsy
RefFalsy(ref) ==
    \/ ref.kind = "none"
    \/ ref.kind = "bytes" /\ ref.v.fmt = "empty"

\* `not audio_data`: None and b"" are falsy
ValFalsy(val) == val.t = "none" \/ (val.t = "bytes" /\ val.v.fmt = "empty")

\* lines 336-350, were the rate of the request always 16000
STTRequestFixedRate(api_key, language, topic, pcm) ==
    [url     |-> STT_URL,
     headers |-> [Authorization |-> <<"Api-Key ">> \o api_key.v],
     params  |-> [lang |-> language, format |-> "lpcm", topic |-> topic,
                  sampleRateHertz |-> "16000"],
     data    |-> pcm.samples,
     timeout |-> 30]

\* lines 336-350: the recognition request
STTRequest(api_key, language, topic, pcm) ==
    [url     |-> STT_URL,
     headers |-> [Authorization |-> <<"Api-Key ">> \o api_key.v],
     params  |-> [lang |-> language, format |-> "lpcm", topic |-> topic,
                  sampleRateHertz |-> ToString(pcm.rate)],
     data    |-> pcm.samples,
     timeout |-> 30]

\* lines 297-343: up to the request.  [raise, type, msg, audio, steps, request]
STTPrepare(tp, cr, env) ==
    LET audio_file == Get(tp, "audio_file", NoRef)
        language   == Get(tp, "language", "ru-RU")
        topic      == Get(tp, "topic", "general")
        api_key    == Get(cr, "api_key", NoneVal)
        acq        == get_audio_data_from_file(audio_file, env)
        norm       == Normalize(acq.val.v, env.pydub)
        Fail(type, msg, audio, steps) ==
            [raise |-> TRUE, type |-> type, msg |-> msg, audio |-> audio,
             steps |-> steps, pcm |-> NoPcm, request |-> [none |-> TRUE]]
    IN  IF RefFalsy(audio_file)
        THEN Fail("Exception", <<"No audio file provided">>, NoneRet, <<>>)
        ELSE IF ~Truthy(api_key)
        THEN Fail("Exception", <<"API key is required">>, NoneRet, <<>>)
        ELSE IF ~acq.ok
        THEN Fail("Exception", <<"Failed to read audio file - ">> \o acq.msg,
                  NoneRet, acq.calls)
        ELSE IF ValFalsy(acq.val)
        THEN Fail("Exception",
                  <<"Failed to read audio file - ", "Could not read audio file">>,
                  acq.val, acq.calls)
        ELSE IF acq.val.t # "bytes"
        THEN \* len(audio_data) of an object that has no length
             Fail("TypeError", <<"object has no len()">>, acq.val, acq.calls)
        ELSE IF ~norm.ok
        THEN Fail("ValueError", norm.msg, acq.val, acq.calls \o Steps(norm.steps))
        ELSE [raise |-> FALSE, type |-> "", msg |-> <<>>, audio |-> acq.val,
              steps |-> acq.calls \o Steps(norm.steps), pcm |-> norm.pcm,
              request |-> STTRequest(api_key, language, topic, norm.pcm)]

\* lines 354-363: the message of the exception raised for a non-200 answer
STTErrorMsg(r) ==
    <<"API error: ", ToString(r.status_code)>> \o
    ( IF r.json.t # "dict" THEN <<" - ">> \o r.text
      ELSE IF r.json.m.error.t = "none" THEN <<" - ", "Unknown error">>
      ELSE IF r.json.m.error.t # "dict" THEN <<" - ">> \o r.text
      ELSE IF r.json.m.error.m.message.t = "none" THEN <<" - ", "Unknown error">>
      ELSE <<" - ">> \o r.json.m.error.m.message.v )

\* line 367, were the text read from the wrong member
RecognizedTextFromMessage(json) == json.m.message

\* line 367: result.get("result", "")
RecognizedText(json) == json.m.result

\* lines 348-378: what _invoke does with the outcome of requests.post.
\* [msgs, err]
STTHandle(r) ==
    CASE r.kind = "timeout" ->
            [msgs |-> <<>>, err |-> Raise("Timeout", r.text)]
      [] r.kind = "neterr" ->
            [msgs |-> <<>>, err |-> Raise("ConnectionError", r.text)]
      [] r.kind = "http" /\ r.status_code # 200 ->
            [msgs |-> <<>>, err |-> Raise("Exception", STTErrorMsg(r))]
      [] r.kind = "http" /\ r.status_code = 200 /\ r.json.t = "invalid" ->
            [msgs |-> <<>>,
             err  |-> Raise("JSONDecodeError", <<"Expecting value">>)]
      [] r.kind = "http" /\ r.status_code = 200 /\ r.json.t = "list" ->
            [msgs |-> <<>>,
             err  |-> Raise("AttributeError", <<"'list' object has no attribute 'get'">>)]
      [] OTHER ->
            IF ~JTruthy(RecognizedText(r.json))
            THEN [msgs |-> <<>>,
                  err  |-> Raise("Exception", <<"No speech detected in the audio file">>)]
            ELSE [msgs |-> <<create_text_message(RecognizedText(r.json).v)>>,
                  err  |-> NoError]

----------------------------------------------------------------------------
(* YandexSpeechkitProvider._validate_credentials *)

\* an API key that is no string, as 12345
IntKey == [t |-> "int", v |-> <<>>]

\* str.lower() of a fragment of a message; the fragments not listed have no
\* capital letter that matters to the words looked for
Lower(fragment) ==
    CASE fragment = "HTTP 401 Unauthorized" -> "http 401 unauthorized"
      [] fragment = "HTTP 403 Forbidden" -> "http 403 forbidden"
      [] fragment = "Unauthorized" -> "unauthorized"
      [] fragment = "FORBIDDEN" -> "forbidden"
      [] fragment = "Request timeout" -> "request timeout"
      [] fragment = "Request timeout. Please try again with shorter text."
            -> "request timeout. please try again with shorter text."
      [] OTHER -> fragment

\* `word in fragment` for the words the provider looks for
Has(fragment, word) ==
    CASE word = "401" ->
            fragment \in {"401", "HTTP 401 Unauthorized", "http 401 unauthorized"}
      [] word = "403" ->
            fragment \in {"403", "HTTP 403 Forbidden", "http 403 forbidden"}
      [] word = "unauthorized" ->
            fragment \in {"http 401 unauthorized", "unauthorized"}
      [] word = "forbidden" ->
            fragment \in {"http 403 forbidden", "forbidden"}
      [] word = "timeout" ->
            fragment \in {"request timeout", "Request timeout",
                          "request timeout. please try again with shorter text.",
                          "Request timeout. Please try again with shorter text."}
      [] OTHER -> FALSE

\* word in error_msg
WordIn(word, msg) == \E i \in 1..Len(msg) : Has(msg[i], word)

\* word in error_msg.lower()
WordInLower(word, msg) == \E i \in 1..Len(msg) : Has(Lower(msg[i]), word)

ValidationError(msg) == Raise("ToolProviderCredentialValidationError", msg)

\* lines 66-77, were the permissions words looked for first
ClassifyForbiddenFirst(error_msg) ==
    IF WordIn("403", error_msg) \/ WordInLower("forbidden", error_msg)
    THEN ValidationError(<<"API key does not have required permissions">>)
    ELSE IF WordIn("401", error_msg) \/ WordInLower("unauthorized", error_msg)
    THEN ValidationError(<<"Invalid API key - unauthorized access">>)
    ELSE IF WordInLower("timeout", error_msg)
    THEN ValidationError(<<"API request timeout - please check your connection">>)
    ELSE ValidationError(<<"Credential validation failed: ">> \o error_msg)

\* lines 63-82: the validation error made of a caught exception
Classify(error_msg) ==
    IF WordIn("401", error_msg) \/ WordInLower("unauthorized", error_msg)
    THEN ValidationError(<<"Invalid API key - unauthorized access">>)
    ELSE IF WordIn("403", error_msg) \/ WordInLower("forbidden", error_msg)
    THEN ValidationError(<<"API key does not have required permissions">>)
    ELSE IF WordInLower("timeout", error_msg)
    THEN ValidationError(<<"API request timeout - please check your connection">>)
    ELSE ValidationError(<<"Credential validation failed: ">> \o error_msg)

\* lines 31-37
test_params ==
    [text |-> <<"t", "e", "s", "t">>, voice |-> "marina", emotion |-> "neutral",
     speed |-> Num(10), format |-> "mp3"]

\* the outcome of from_credentials(...).invoke(...): the messages, or the
\* exception; request is what went to the endpoint, if anything
LiveOutcome(msgs, err, request, r) ==
    [msgs |-> msgs, err |-> err, request |-> request, response |-> r]

\* lines 29-43 with the tool of this plugin: TextToSpeechTool._invoke run on
\* test_params, the endpoint answering r
LiveCall(cr, r) ==
    LET prep == TTSPrepare(test_params, cr)
        out  == TTSHandle(r, prep.params)
    IN  IF prep.raise
        THEN LiveOutcome(<<>>, Raise("Exception", prep.msg), <<>>, NoResponse)
        ELSE LiveOutcome(out.msgs, out.err,
                         <<TTSRequest(Get(cr, "api_key", NoneVal), prep.params)>>, r)

\* lines 51-58: the text of the first result that starts with "Error:"
RECURSIVE FirstErrorText(_, _)
FirstErrorText(msgs, i) ==
    IF i > Len(msgs) THEN <<>>
    ELSE IF msgs[i].type = "text" /\ StartsWith(msgs[i].text, <<"Error:">>)
    THEN msgs[i].text
    ELSE FirstErrorText(msgs, i + 1)

\* [called, err]: called tells whether the live call was made
validate_credentials(cr, live) ==
    LET api_key == Get(cr, "api_key", NoneVal)
        required == [called |-> FALSE,
                     err |-> ValidationError(<<"API key is required">>)]
    IN  IF ~Truthy(api_key) THEN required
        ELSE IF api_key.t # "str" \/ Strip(api_key.v) = <<>> THEN required
        ELSE IF live.err.raised
        THEN [called |-> TRUE,
              err |-> IF live.err.type = "ToolProviderCredentialValidationError"
                      THEN live.err ELSE Classify(live.err.msg)]
        ELSE IF live.msgs = <<>>
        THEN [called |-> TRUE,
              err |-> ValidationError(<<"No response from Yandex SpeechKit API">>)]
        ELSE IF FirstErrorText(live.msgs, 1) # <<>>
        THEN [called |-> TRUE,
              err |-> ValidationError(<<"API validation failed: ">>
                                      \o FirstErrorText(live.msgs, 1))]
        ELSE [called |-> TRUE, err |-> NoError]

----------------------------------------------------------------------------
(* Inputs of the model *)

\* the text cores; each is also tried with surrounding blanks
TextCores ==
    { <<>>, <<"a">>, <<"<", "s", "p", "e", "a", "k", ">">>,
      Rep("a", TextLimit), Rep("a", TextLimit + 1) }

Texts == { Rep(" ", n) \o c \o Rep(" ", n) : n \in 0..MaxPad, c \in TextCores }

Voices == VOICE_DESCRIPTIONS \cup {"invalid_voice"}
Emotions == EMOTIONS \cup {"invalid_emotion"}
Speeds == { Num(0), Num(1), Num(10), Num(30), Num(31), NumStr(15), BadStr, NoneSpeed }
Formats == { "mp3", "wav", "opus", "oggopus" }

\* every mapping with a text, and any of the other keys left out
TTSParameters ==
    { [text |-> t, voice |-> v, emotion |-> e, speed |-> s, format |-> f] :
        t \in Texts, v \in Voices, e \in Emotions, s \in Speeds, f \in Formats }
    \cup { [text |-> t] : t \in Texts }
    \cup { [text |-> t, voice |-> v] : t \in {<<"a">>}, v \in Voices }
    \cup { [voice |-> v, emotion |-> e] : v \in {"marina"}, e \in Emotions }

ApiKeys == { NoneVal, StrVal(<<>>), StrVal(<<"k">>) }
Credentials == { [api_key |-> k] : k \in ApiKeys } \cup { [region |-> "ru"] }

ErrorStatuses == { 401, 403, 500 }
Contents == { <<>>, <<102, 97>> }
LongBody == Rep("x", BodyCut + 1)

\* the JSON shapes of an error body
JsonBodies ==
    { JList,
      JDict(JNone, JNone, JNone, JStr(<<"Invalid API key">>), JNone, JNone, JNone),
      JDict(JErr(JStr(<<"16">>), JNone, JStr(<<"Invalid API key">>), JNone),
            JNone, JNone, JNone, JNone, JNone, JNone),
      JDict(JErr(JNone, JNone, JNone, JNone),
            JNone, JNone, JNone, JNone, JNone, JNone),
      JDict(JNone, JNone, JStr(<<"E1">>), JNone, JStr(<<"bad">>), JNone, JNone),
      JDict(JNone, JNone, JNone, JNone, JNone, JRepr(LongBody), JNone),
      JDict(JStr(<<"oops">>), JNone, JNone, JNone, JNone, JNone, JNone),
      JDict(JNone, JNone, JNone, JNone, JNone, JNone, JNone) }

\* error answers: a JSON body, or a body that is not JSON
ErrorResponses ==
    { HttpResponse(s, <<>>, j, <<"json text">>) : s \in ErrorStatuses, j \in JsonBodies }
    \cup { HttpResponse(s, <<>>, JInvalid, t) :
              s \in ErrorStatuses, t \in {<<>>, <<"raw body">>, LongBody} }

\* what the transport says of its failure; a read that times out while the
\* body is received is reported as a connection error with the same words
TransportTexts == { <<"Read timed out.">>, <<"Connection refused">> }

TransportFailures ==
    { TransportFailure(k, t) : k \in {"timeout", "neterr"}, t \in TransportTexts }

\* the synthesis endpoint answers 200 with audio bytes
TTSResponses ==
    { HttpResponse(200, c, JInvalid, <<>>) : c \in Contents }
    \cup ErrorResponses \cup TransportFailures

----------------------------------------------------------------------------
(* The invocations *)

\* the audio byte strings
QuietWav == Wav(16000, 2, 1, << <<100>>, <<-100>> >>)
StereoWav == Wav(8000, 2, 2, << <<2000, 1000>>, <<-3000, 3000>> >>)
Wav8Bit == Wav(16000, 1, 1, << <<5>> >>)
Mp3 == Foreign(TRUE, 44100, 2, << <<700, 500>> >>)
Junk == Foreign(FALSE, 0, 0, <<>>)
Audios == { QuietWav, StereoWav, Wav8Bit, Mp3, Junk }

HttpUrl == "http://host/a.wav"

Obj(download, blob, read, content, data, remote_url, id) ==
    [kind |-> "object", download |-> download, blob |-> blob, read |-> read,
     content |-> content, data |-> data, remote_url |-> remote_url,
     url |-> "absent", id |-> id, related_id |-> "absent"]

ObjectRefs ==
    { Obj(GivesBytes(QuietWav), Absent, Absent, Absent, Absent, "absent", "absent"),
      Obj(GivesObj(StereoWav), Absent, Absent, Absent, Absent, "absent", "absent"),
      Obj(GivesNone, GivesBytes(Mp3), Absent, Absent, Absent, "absent", "absent"),
      Obj(Raises, GivesBytes(QuietWav), Absent, Absent, Absent, HttpUrl, "f1"),
      Obj(Absent, GivesNone, GivesBytes(QuietWav), Absent, Absent, "absent", "absent"),
      Obj(Absent, GivesNone, Absent, GivesBytes(StereoWav), Absent, "absent", "absent"),
      Obj(Absent, GivesNone, Absent, Absent, GivesNone, "absent", "absent"),
      Obj(Absent, GivesNone, Absent, Absent, Absent, HttpUrl, "f1"),
      Obj(Absent, GivesNone, Absent, Absent, Absent, "files/a.wav", "f1"),
      Obj(Absent, Absent, GivesBytes(QuietWav), Absent, Absent, "absent", "absent"),
      Obj(Absent, Absent, Raises, Absent, Absent, "absent", "absent"),
      Obj(Absent, Absent, Absent, GivesBytes(QuietWav), Absent, "absent", "absent") }

DictRefs ==
    { [kind |-> "dict", d |-> d] :
        d \in { [related_id |-> "f1"], [remote_url |-> HttpUrl],
                [id |-> "f1", url |-> HttpUrl], [filename |-> "a.wav"] } }

AudioRefs ==
    { [kind |-> "bytes", v |-> a] : a \in Audios \cup {EmptyBytes} }
    \cup { [kind |-> "path", exists |-> e, v |-> QuietWav] : e \in BOOLEAN }
    \cup ObjectRefs \cup DictRefs \cup { NoRef, [kind |-> "int"] }

NoAccessors == [i \in 1..7 |-> Absent]
Environments ==
    { [pydub |-> p, http_get |-> h, accessors |-> a] :
        p \in BOOLEAN,
        h \in { GivesBytes(QuietWav), Raises },
        a \in { NoAccessors,
                [NoAccessors EXCEPT ![2] = GivesBytes(Mp3)],
                [NoAccessors EXCEPT ![1] = Raises, ![3] = GivesObj(QuietWav)] } }
NoEnv == [none |-> TRUE]

STTParameters ==
    { [audio_file |-> f, language |-> l, topic |-> t] :
        f \in AudioRefs, l \in {"en-US"}, t \in {"maps"} }
    \cup { [audio_file |-> f] : f \in AudioRefs }
    \cup { [language |-> "ru-RU", topic |-> "general"] }

\* the credential mappings given to the provider
ProviderCredentials ==
    Credentials \cup { [api_key |-> StrVal(<<" ", " ">>)], [api_key |-> IntKey],
                       [api_key |-> StrVal(<<" ", "k", " ">>)] }

\* what a stand-in for the tool gives, as in tests/test_provider.py
StubOutcomes ==
    { LiveOutcome(<<create_text_message(<<"Speech synthesis completed successfully!">>)>>,
                  NoError, <<>>, NoResponse),
      LiveOutcome(<<create_text_message(
                      <<"Error:", " API error: ", "401", " - Invalid API key">>)>>,
                  NoError, <<>>, NoResponse),
      LiveOutcome(<<create_text_message(<<"ok">>),
                    create_text_message(<<"Error:", " late">>)>>,
                  NoError, <<>>, NoResponse),
      LiveOutcome(<<>>, NoError, <<>>, NoResponse) }
    \cup { LiveOutcome(<<>>, Raise("Exception", m), <<>>, NoResponse) :
              m \in { <<"HTTP 401 Unauthorized">>, <<"HTTP 403 Forbidden">>,
                      <<"Request timeout">>, <<"Some generic error">>,
                      <<"Unauthorized">>, <<"FORBIDDEN">>,
                      <<"403", " after ", "401">>,
                      <<"HTTP 403 Forbidden", ": ", "Request timeout">>,
                      <<"Unauthorized", ": ", "Request timeout">> } }

\* managed-file references with every mix of capabilities
ManagedRefs ==
    { Obj(dl, bl, rd, ct, dt, u, i) :
        dl \in { Absent, GivesBytes(QuietWav), GivesObj(StereoWav), GivesNone, Raises },
        bl \in { Absent, GivesBytes(Mp3), GivesNone, Raises },
        rd \in { Absent, GivesBytes(StereoWav), Raises },
        ct \in { Absent, GivesBytes(Wav8Bit) },
        dt \in { Absent, GivesBytes(Junk) },
        u  \in { "absent", HttpUrl, "files/a.wav" },
        i  \in { "absent", "f1" } }

\* the references acquisition is run on by itself
AcquisitionRefs ==
    AudioRefs \cup ManagedRefs
    \cup { [kind |-> "dict", d |-> d] :
              d \in { [remote_url |-> "HTTPS://host/a.wav"],
                      [remote_url |-> "files/a.wav"],
                      [related_id |-> "f1", remote_url |-> HttpUrl] } }

\* the GET may also answer with an empty body
AcquisitionEnvironments ==
    Environments
    \cup { [e EXCEPT !.http_get = GivesBytes(EmptyBytes)] : e \in Environments }

\* n frames of one channel, all silent but the first
Spike(n, sample) == [i \in 1..n |-> IF i = 1 THEN <<sample>> ELSE <<0>>]

\* mono signals: one sample at and around the RMS thresholds and the ends of
\* the range, an almost silent one, the empty one, and quiet ones with a
\* sample that the gain takes out of the range
MonoFrames ==
    { <<<<x>>>> : x \in { 0, 1, 250, 299, 300, 700, 999, 1000, 1500, -299, -300,
                          -1000, 32767, -32768 } }
    \cup { <<>>, Spike(4, 1), Spike(1000, 9000), Spike(1000, -9000),
           Spike(500, 20000), Spike(500, -20000) }

StereoFrames ==
    { <<f>> : f \in { <<0, 0>>, <<1, 0>>, <<-1, 0>>, <<299, 299>>, <<598, 0>>,
                      <<300, 300>>, <<999, 1000>>, <<1000, 1000>>,
                      <<20000, 32767>>, <<-32768, -20000>> } }
    \cup { << <<2000, 1000>>, <<-3000, 3000>> >>,
           << <<100, 300>>, <<-100, -300>>, <<0, 0>> >> }

\* the byte strings _convert_wav_to_pcm is run on by itself
WavInputs ==
    { Wav(r, w, 1, f) : r \in {8000, 16000, 44100}, w \in {1, 2, 3}, f \in MonoFrames }
    \cup { Wav(r, w, 2, f) :
              r \in {8000, 16000, 44100}, w \in {1, 2, 3}, f \in StereoFrames }
    \cup { Mp3, Junk, EmptyBytes }

\* the recognition endpoint answers 200 with a JSON body
STTResponses ==
    { HttpResponse(200, <<>>, j, <<"json text">>) :
        j \in { JDict(JNone, JNone, JNone, JNone, JNone, JNone, JStr(<<"recognized text">>)),
                JDict(JNone, JNone, JNone, JNone, JNone, JNone, JStr(<<>>)),
                JDict(JNone, JNone, JNone, JNone, JNone, JNone, JNone),
                JList, JInvalid } }
    \cup ErrorResponses \cup TransportFailures

----------------------------------------------------------------------------
(* The invocations *)

Init ==
    /\ pc = "idle"
    /\ tool = "none"
    /\ tool_parameters = [none |-> TRUE]
    /\ credentials = [none |-> TRUE]
    /\ params = NoParams
    /\ requests = <<>>
    /\ results = <<>>
    /\ error = NoError
    /\ response = NoResponse
    /\ environ = NoEnv
    /\ audio_data = NoneRet
    /\ trace = <<>>
    /\ caught = NoError
    /\ pcm_data = NoPcm

\* TextToSpeechTool._invoke, up to requests.post
TTSInvoke ==
    /\ pc = "idle"
    /\ \E tp \in TTSParameters, cr \in Credentials :
        LET o == TTSPrepare(tp, cr)
        IN  /\ tool' = "tts"
            /\ tool_parameters' = tp
            /\ credentials' = cr
            /\ params' = o.params
            /\ results' = <<>>
            /\ response' = NoResponse
            /\ IF o.raise
               THEN /\ error' = Raise("Exception", o.msg)
                    /\ requests' = <<>>
                    /\ pc' = "done"
               ELSE /\ error' = NoError
                    /\ requests' = <<TTSRequest(Get(cr, "api_key", NoneVal), o.params)>>
                    /\ pc' = "waiting"
    /\ UNCHANGED <<environ, audio_data, trace, caught, pcm_data>>

\* TextToSpeechTool._invoke, from the return of requests.post to the end
TTSRespond ==
    /\ pc = "waiting"
    /\ tool = "tts"
    /\ \E r \in TTSResponses :
        LET o == TTSHandle(r, params)
        IN  /\ response' = r
            /\ results' = o.msgs
            /\ error' = o.err
            /\ pc' = "done"
    /\ UNCHANGED <<tool, tool_parameters, credentials, params, requests,
                   environ, audio_data, trace, caught, pcm_data>>

\* SpeechToTextTool._invoke, up to requests.post
STTInvoke ==
    /\ pc = "idle"
    /\ \E tp \in STTParameters, cr \in Credentials, e \in Environments :
        LET o == STTPrepare(tp, cr, e)
        IN  /\ tool' = "stt"
            /\ tool_parameters' = tp
            /\ credentials' = cr
            /\ environ' = e
            /\ audio_data' = o.audio
            /\ trace' = o.steps
            /\ pcm_data' = o.pcm
            /\ results' = <<>>
            /\ response' = NoResponse
            /\ IF o.raise
               THEN /\ error' = Raise(o.type, o.msg)
                    /\ requests' = <<>>
                    /\ pc' = "done"
               ELSE /\ error' = NoError
                    /\ requests' = <<o.request>>
                    /\ pc' = "waiting"
    /\ UNCHANGED <<params, caught>>

\* SpeechToTextTool._invoke, from the return of requests.post to the end
STTRespond ==
    /\ pc = "waiting"
    /\ tool = "stt"
    /\ \E r \in STTResponses :
        LET o == STTHandle(r)
        IN  /\ response' = r
            /\ results' = o.msgs
            /\ error' = o.err
            /\ pc' = "done"
    /\ UNCHANGED <<tool, tool_parameters, credentials, params, requests,
                   environ, audio_data, trace, caught, pcm_data>>

\* YandexSpeechkitProvider._validate_credentials
ValidateCredentials ==
    /\ pc = "idle"
    /\ \E cr \in ProviderCredentials :
        \E live \in { LiveCall(cr, r) : r \in TTSResponses } \cup StubOutcomes :
            LET o == validate_credentials(cr, live)
            IN  /\ tool' = "provider"
                /\ credentials' = cr
                /\ error' = o.err
                /\ pc' = "done"
                /\ IF o.called
                   THEN /\ tool_parameters' = test_params
                        /\ trace' = <<Call("invoke")>>
                        /\ requests' = live.request
                        /\ response' = live.response
                        /\ results' = live.msgs
                        /\ caught' = live.err
                   ELSE UNCHANGED <<tool_parameters, trace, requests, response,
                                    results, caught>>
    /\ UNCHANGED <<params, environ, audio_data, pcm_data>>

\* SpeechToTextTool._get_audio_data_from_file, called by itself
Acquire ==
    /\ pc = "idle"
    /\ \E ref \in AcquisitionRefs, e \in AcquisitionEnvironments :
        LET acq == get_audio_data_from_file(ref, e)
        IN  /\ tool' = "acquire"
            /\ tool_parameters' = [audio_file |-> ref]
            /\ environ' = e
            /\ audio_data' = acq.val
            /\ trace' = acq.calls
            /\ error' = IF acq.ok THEN NoError ELSE Raise("ValueError", acq.msg)
            /\ pc' = "done"
    /\ UNCHANGED <<credentials, params, requests, results, response, caught,
                   pcm_data>>

Next == TTSInvoke \/ TTSRespond \/ STTInvoke \/ STTRespond \/ ValidateCredentials

Spec == Init /\ [][Next]_vars

\* SpeechToTextTool._convert_wav_to_pcm, called by itself
ParseWav ==
    /\ pc = "idle"
    /\ \E wav_data \in WavInputs :
        LET o == convert_wav_to_pcm(wav_data)
        IN  /\ tool' = "parse_wav"
            /\ tool_parameters' = [wav_data |-> wav_data]
            /\ pcm_data' = o.pcm
            /\ trace' = IF o.frames_read THEN <<Call("readframes")>> ELSE <<>>
            /\ error' = IF o.ok THEN NoError ELSE Raise("ValueError", o.msg)
            /\ pc' = "done"
    /\ UNCHANGED <<credentials, params, requests, results, response, caught,
                   environ, audio_data>>

\* the WAV parse alone, on every input
SpecWav == Init /\ [][ParseWav]_vars

\* acquisition alone, on every reference and environment
SpecAcquire == Init /\ [][Acquire]_vars

----------------------------------------------------------------------------
(* Properties *)

\* the invocation has ended and the endpoint had answered with an HTTP status
Answered(t) == pc = "done" /\ tool = t /\ response.kind = "http"

\* the credentials carry a usable API key
KeyGiven == "api_key" \in DOMAIN credentials /\ Truthy(credentials.api_key)

\* the caller's synthesis parameters, with the defaults of the tool
CallerText == Strip(Get(tool_parameters, "text", <<>>))
CallerVoice == Get(tool_parameters, "voice", "marina")
CallerEmotion == Get(tool_parameters, "emotion", "neutral")
CallerSpeed == Get(tool_parameters, "speed", Num(10))
CallerFormat == Get(tool_parameters, "format", "mp3")

TextValid == CallerText # <<>> /\ Len(CallerText) <= TextLimit
SpeedValid ==
    CallerSpeed.t \in {"num", "str"} /\ SpeedMin <= CallerSpeed.v /\ CallerSpeed.v <= SpeedMax
FormatValid == CallerFormat \in {"mp3", "opus", "oggopus"}
VoiceValid == CallerVoice \in VOICE_DESCRIPTIONS
EmotionNamed == CallerEmotion \in EMOTIONS

\* a text-to-speech invocation that got as far as parameter validation
TTSValidated == tool = "tts" /\ pc # "idle" /\ KeyGiven

\* C1: a recognition answer 200 with an empty or missing `result` gives
\* exactly one result, the text "No speech detected in the audio file", and
\* no error.
C1_NoSpeechIsAResult ==
    (Answered("stt") /\ response.status_code = 200 /\ response.json.t = "dict"
        /\ ~JTruthy(response.json.m.result))
    => /\ results = <<create_text_message(<<"No speech detected in the audio file">>)>>
       /\ error = NoError

\* C2: a recognition answer 200 with a non-empty `result` r gives exactly one
\* result, a text message whose text is r, and no error.
C2_RecognizedText ==
    (Answered("stt") /\ response.status_code = 200 /\ response.json.t = "dict"
        /\ JTruthy(response.json.m.result))
    => /\ Len(results) = 1
       /\ results[1].type = "text"
       /\ results[1].text = response.json.m.result.v
       /\ error = NoError

C2_Witness ==
    /\ Answered("stt") /\ response.status_code = 200 /\ response.json.t = "dict"
    /\ JTruthy(response.json.m.result)
    /\ Len(results) = 1
    /\ results[1].text = <<"recognized text">>

\* C3: for either tool, an answer with a status s other than 200 gives
\* exactly one result, whose text contains "API error: s".
C3_ApiErrorIsAResult ==
    (pc = "done" /\ tool \in {"tts", "stt"}
        /\ response.kind = "http" /\ response.status_code # 200)
    => /\ Len(results) = 1
       /\ results[1].type = "text"
       /\ Contains(results[1].text, <<"API error: ", ToString(response.status_code)>>)

\* C4: an unmet precondition gives exactly one result with the text
\* "Error: <reason>": "Error: No audio file provided" when the speech-to-text
\* parameters carry no audio reference, "Error: API key is required" when the
\* credentials carry no API key (both tools).
C4_PreconditionErrorIsAResult ==
    /\ (pc = "done" /\ tool = "stt" /\ "audio_file" \notin DOMAIN tool_parameters)
       => results = <<create_text_message(<<"Error: ", "No audio file provided">>)>>
    /\ (pc = "done" /\ tool = "tts" /\ ~KeyGiven)
       => results = <<create_text_message(<<"Error: ", "API key is required">>)>>
    /\ (pc = "done" /\ tool = "stt" /\ "audio_file" \in DOMAIN tool_parameters
            /\ ~RefFalsy(tool_parameters.audio_file) /\ ~KeyGiven)
       => results = <<create_text_message(<<"Error: ", "API key is required">>)>>

C6_ParameterErrorIsAResult ==
    (TTSValidated /\ pc = "done"
        /\ ~(TextValid /\ VoiceValid /\ EmotionNamed /\ SpeedValid /\ FormatValid
             /\ CallerEmotion \in VOICE_ALLOWED_EMOTIONS[CallerVoice]))
    => /\ Len(results) = 1
       /\ results[1].type = "text"
       /\ Contains(results[1].text, <<"Parameter error: ">>)

\* the part of the message that names the voice/emotion mismatch
NotSupportedByVoice == <<"' is not supported by voice '">>

MarinaCase ==
    /\ TTSValidated /\ pc = "done"
    /\ TextValid /\ SpeedValid /\ FormatValid
    /\ CallerVoice = "marina" /\ EmotionNamed
    /\ (response.kind = "http" => response.status_code = 200)
    /\ response.kind \in {"none", "http"}

FormatCase ==
    /\ TTSValidated /\ pc = "done"
    /\ TextValid /\ SpeedValid /\ VoiceValid
    /\ CallerEmotion \in VOICE_ALLOWED_EMOTIONS[CallerVoice]
    /\ CallerFormat \in {"mp3", "wav", "opus"}
    /\ (response.kind = "http" => response.status_code = 200 /\ response.content # <<>>)
    /\ response.kind \in {"none", "http"}

ParameterError ==
    /\ pc = "done" /\ requests = <<>> /\ results = <<>>
    /\ error.raised /\ Contains(error.msg, <<"Parameter error: ">>)

C12_TextAndSpeed ==
    TTSValidated =>
    /\ params.ok => TextValid /\ SpeedValid
    /\ (TextValid /\ SpeedValid /\ VoiceValid /\ FormatValid
            /\ CallerEmotion \in VOICE_ALLOWED_EMOTIONS[CallerVoice])
       => params.ok /\ Len(requests) = 1
    /\ CallerText = <<>>
       => ParameterError /\ Contains(error.msg, <<"Text content is required">>)
    /\ Len(CallerText) > TextLimit
       => /\ ParameterError
          /\ Contains(error.msg, <<"Text is too long (maximum 5000 characters)">>)
    /\ (CallerSpeed.t \in {"num", "str"} /\ ~SpeedValid)
       => /\ ParameterError
          /\ Contains(error.msg, <<"Speed must be between 0.1 and 3.0">>)
    /\ CallerSpeed.t \notin {"num", "str"}
       => ParameterError /\ Contains(error.msg, <<"Speed must be a valid number">>)
    /\ params.ok
       => /\ params.speed = NumStr(CallerSpeed.v)
          /\ \A i \in 1..Len(requests) : requests[i].data.speed = params.speed

C12_Witness ==
    /\ TTSValidated /\ params.ok /\ Len(requests) = 1
    /\ Len(CallerText) = TextLimit
    /\ CallerSpeed = Num(SpeedMax)
    /\ requests[1].data.speed = NumStr(SpeedMax)

\* the rules checked before the first raise that the caller's parameters break
BasicViolations ==
    { r \in {"text", "voice", "emotion", "speed", "format"} :
        \/ r = "text" /\ ~TextValid
        \/ r = "voice" /\ ~VoiceValid
        \/ r = "emotion" /\ ~EmotionNamed
        \/ r = "speed" /\ ~SpeedValid
        \/ r = "format" /\ ~FormatValid }

\* a known voice with a named emotion outside the voice's allowed set
CompatViolated ==
    VoiceValid /\ EmotionNamed /\ CallerEmotion \notin VOICE_ALLOWED_EMOTIONS[CallerVoice]

\* the message of a violated rule is part of the error
RuleMessageGiven(r) ==
    CASE r = "text" ->
            \/ Contains(error.msg, <<"Text content is required">>)
            \/ Contains(error.msg, <<"Text is too long (maximum 5000 characters)">>)
      [] r = "voice" -> Contains(error.msg, <<"Invalid voice: ", CallerVoice>>)
      [] r = "emotion" -> Contains(error.msg, <<"Invalid emotion: ", CallerEmotion>>)
      [] r = "speed" ->
            \/ Contains(error.msg, <<"Speed must be between 0.1 and 3.0">>)
            \/ Contains(error.msg, <<"Speed must be a valid number">>)
      [] r = "format" -> Contains(error.msg, <<"Invalid format: ", CallerFormat>>)
      [] r = "compat" -> Contains(error.msg, NotSupportedByVoice)

\* the number of "; " separators in the error message
Separators == Cardinality({ i \in 1..Len(error.msg) : error.msg[i] = "; " })

\* C13 as stated: parameters that break several rules at once (text, voice,
\* emotion name, speed, format, voice/emotion compatibility) give one
\* parameter error whose message contains the message of every broken rule.
C13_Original ==
    (TTSValidated /\ (BasicViolations # {} \/ CompatViolated))
    => /\ ParameterError
       /\ \A r \in BasicViolations : RuleMessageGiven(r)
       /\ CompatViolated => RuleMessageGiven("compat")

\* C13 amended: parameters that break several of the rules text, voice,
\* emotion name, speed, format give one parameter error whose message is the
\* messages of all of these broken rules joined by "; "; voice/emotion
\* compatibility is checked only when all of them pass, so its message is
\* never joined to another one.
C13_Concatenated ==
    (TTSValidated /\ (BasicViolations # {} \/ CompatViolated))
    => /\ ParameterError
       /\ \A r \in BasicViolations : RuleMessageGiven(r)
       /\ BasicViolations # {}
          => /\ Separators = Cardinality(BasicViolations) - 1
             /\ ~RuleMessageGiven("compat")
       /\ (BasicViolations = {} /\ CompatViolated)
          => RuleMessageGiven("compat") /\ Separators = 0

C13_Witness ==
    /\ TTSValidated /\ ParameterError
    /\ BasicViolations = {"text", "speed", "format"}
    /\ CompatViolated
    /\ Separators = 2
    /\ ~RuleMessageGiven("compat")

\* the provider got a string API key that is not blank
KeyUsable ==
    /\ "api_key" \in DOMAIN credentials
    /\ credentials.api_key.t = "str"
    /\ Strip(credentials.api_key.v) # <<>>

\* the exception of the live call names the word, whatever its case
Names(word) == WordIn(word, caught.msg) \/ WordInLower(word, caught.msg)

\* one of the results of the live call is a text that starts with "Error:"
ErrorResult ==
    \E i \in 1..Len(results) :
        results[i].type = "text" /\ StartsWith(results[i].text, <<"Error:">>)

\* C14: credential validation gives "API key is required", with no live
\* call, for a missing, empty or non-string key; "No response from Yandex
\* SpeechKit API" for an empty result list; "API validation failed" for a
\* result text starting with "Error:"; for an exception of the live call the
\* unauthorized error if its message names 401 or unauthorized, else the
\* permissions error if it names 403 or forbidden, else the timeout error if
\* it names timeout, else "Credential validation failed: <message>".  It
\* succeeds only when the live call gave at least one result, none an error.
C14_CredentialValidation ==
    (tool = "provider" /\ pc = "done") =>
    /\ ~KeyUsable
       => /\ error = ValidationError(<<"API key is required">>)
          /\ trace = <<>> /\ requests = <<>>
    /\ (KeyUsable /\ ~caught.raised /\ results = <<>>)
       => error = ValidationError(<<"No response from Yandex SpeechKit API">>)
    /\ (KeyUsable /\ ~caught.raised /\ ErrorResult)
       => /\ error.raised /\ error.type = "ToolProviderCredentialValidationError"
          /\ StartsWith(error.msg, <<"API validation failed: ", "Error:">>)
    /\ (KeyUsable /\ caught.raised)
       => error =
            ValidationError(
                IF Names("401") \/ Names("unauthorized")
                THEN <<"Invalid API key - unauthorized access">>
                ELSE IF Names("403") \/ Names("forbidden")
                THEN <<"API key does not have required permissions">>
                ELSE IF Names("timeout")
                THEN <<"API request timeout - please check your connection">>
                ELSE <<"Credential validation failed: ">> \o caught.msg)
    /\ ~error.raised
       <=> (KeyUsable /\ trace = <<Call("invoke")>> /\ ~caught.raised
            /\ results # <<>> /\ ~ErrorResult)

C14_Witness ==
    /\ tool = "provider" /\ pc = "done" /\ KeyUsable
    /\ caught.raised /\ Names("403") /\ Names("401")
    /\ error = ValidationError(<<"Invalid API key - unauthorized access">>)

\* acquisition has been run on the reference
Acquired(kind) ==
    tool = "acquire" /\ pc = "done" /\ tool_parameters.audio_file.kind = kind

\* C15: acquisition of a raw-bytes reference gives back exactly those bytes,
\* for every byte string, the empty one too, and uses no download, read,
\* network fetch or identifier lookup.
C15_RawBytesRoundTrip ==
    Acquired("bytes")
    => /\ ~error.raised
       /\ audio_data = BytesVal(tool_parameters.audio_file.v)
       /\ trace = <<>>

C15_Witness ==
    /\ Acquired("bytes")
    /\ tool_parameters.audio_file.v = StereoWav
    /\ audio_data = BytesVal(StereoWav)
    /\ trace = <<>>

\* the reference is a mapping with the one key remote_url, an absolute
\* HTTP(S) URL
OnlyRemoteUrl ==
    /\ Acquired("dict")
    /\ DOMAIN tool_parameters.audio_file.d = {"remote_url"}
    /\ tool_parameters.audio_file.d.remote_url
            \in {"http://host/a.wav", "HTTPS://host/a.wav"}

\* C16: for a mapping with only remote_url, an absolute HTTP(S) URL,
\* acquisition does one GET of that URL with a timeout of 30 s and gives
\* back the body of the answer; if the GET fails it ends in an error and
\* gives back no bytes.
C16_RemoteUrlOnly ==
    OnlyRemoteUrl
    => /\ Len(trace) = 1
       /\ trace[1].op = "http_get"
       /\ trace[1].url = tool_parameters.audio_file.d.remote_url
       /\ trace[1].timeout = 30
       /\ environ.http_get.t = "bytes"
          => ~error.raised /\ audio_data = BytesVal(environ.http_get.v)
       /\ environ.http_get.t = "raise"
          => /\ error.raised /\ audio_data = NoneRet
             /\ Contains(error.msg,
                    <<"Could not retrieve file bytes from provided metadata (no SDK method worked, ">>)

C16_Witness ==
    /\ OnlyRemoteUrl
    /\ tool_parameters.audio_file.d.remote_url = "HTTPS://host/a.wav"
    /\ trace = <<HttpGet("HTTPS://host/a.wav")>>
    /\ ~error.raised /\ audio_data = BytesVal(QuietWav)

\* the messages the tool surfaces for the failures of its request other
\* than a timeout: transport failures and answers that end in an error
OtherFailureMessages ==
    IF tool = "tts"
    THEN { TTSHandle(r, params).err.msg :
             r \in { x \in TTSResponses :
                       x.kind # "timeout" /\ TTSHandle(x, params).err.raised } }
    ELSE { STTHandle(r).err.msg :
             r \in { x \in STTResponses :
                       x.kind # "timeout" /\ STTHandle(x).err.raised } }

\* C17: a timeout of the recognition or synthesis request is surfaced with a
\* message that no other failure of the request is surfaced with; for
\* synthesis it asks to try again with shorter text, and the other transport
\* failures are reported as "Network error".
C17_TimeoutMessage ==
    (pc = "done" /\ tool \in {"tts", "stt"})
    => /\ response.kind = "timeout"
          => /\ error.raised /\ results = <<>>
             /\ error.msg \notin OtherFailureMessages
             /\ tool = "tts"
                => error.msg = <<"Request timeout. Please try again with shorter text.">>
       /\ (response.kind = "neterr" /\ tool = "tts")
          => error.raised /\ StartsWith(error.msg, <<"Network error: ">>)

\* a speech-to-text invocation whose request is sent only after the
\* credential check, acquisition and normalization have passed
STTPassed ==
    /\ KeyGiven
    /\ audio_data.t = "bytes"
    /\ Normalize(audio_data.v, environ.pydub).ok

\* C18: an invocation of either tool sends at most one request and ends with
\* results or with an error: the answer to the request, whatever it is, ends
\* the invocation with no further request, and no request is sent when the
\* credential check, parameter validation, acquisition or normalization has
\* failed.
C18_SingleRoundTrip ==
    /\ [](tool \in {"tts", "stt"}
          => /\ Len(requests) <= 1
             /\ pc = "done" => (error.raised <=> results = <<>>)
             /\ (pc = "done" /\ response = NoResponse)
                => requests = <<>> /\ error.raised
             /\ ~KeyGiven => requests = <<>>
             /\ (tool = "tts" /\ requests # <<>>)
                => /\ TextValid /\ VoiceValid /\ SpeedValid /\ FormatValid
                   /\ CallerEmotion \in VOICE_ALLOWED_EMOTIONS[CallerVoice]
             /\ (tool = "stt" /\ requests # <<>>) => STTPassed)
    /\ [][pc = "waiting" => (pc' = "done" /\ requests' = requests)]_vars

C18_Witness ==
    /\ tool = "stt" /\ pc = "done"
    /\ response.kind = "timeout"
    /\ Len(requests) = 1 /\ error.raised /\ results = <<>>

\* the strategies of a managed-file reference, in the order of the claim
StrategyOrder ==
    <<"download", "blob", "read", "content", "data", "http_get", "lookup">>

\* the reference acquisition was run on
Ref == tool_parameters.audio_file

\* the URL and the identifier the reference carries
RefUrl == IF Ref.remote_url # "absent" THEN Ref.remote_url ELSE Ref.url
RefId == IF Ref.id \notin {"absent", ""} THEN Ref.id ELSE Ref.related_id

\* what the strategy gives when it is used
Outcome(s) ==
    CASE s = "download" -> Ref.download
      [] s = "blob" -> Ref.blob
      [] s = "read" -> Ref.read
      [] s = "content" -> Ref.content
      [] s = "data" -> Ref.data
      [] s = "http_get" -> environ.http_get
      [] s = "lookup" ->
            IF FirstAccessor(environ.accessors, 1) = 0 THEN Absent
            ELSE environ.accessors[FirstAccessor(environ.accessors, 1)]

\* the reference, with the runtime, exposes what the strategy needs
Exposed(s) ==
    CASE s = "http_get" -> RefUrl \in {"http://host/a.wav", "HTTPS://host/a.wav"}
      [] s = "lookup" -> RefId \notin {"absent", ""} /\ Outcome(s).t # "absent"
      [] OTHER -> Outcome(s).t # "absent"

\* the strategy yields bytes: bytes themselves, or for a download an object
\* whose content is taken
YieldsBytes(s) ==
    /\ Exposed(s)
    /\ \/ Outcome(s).t = "bytes"
       \/ s = "download" /\ Outcome(s).t = "obj"

\* the place in the order of the first strategy that yields bytes, 0 if none
Winner ==
    IF \E i \in 1..Len(StrategyOrder) : YieldsBytes(StrategyOrder[i])
    THEN CHOOSE i \in 1..Len(StrategyOrder) :
            /\ YieldsBytes(StrategyOrder[i])
            /\ \A j \in 1..(i - 1) : ~YieldsBytes(StrategyOrder[j])
    ELSE 0

\* the strategies used, in order
Ops == [i \in 1..Len(trace) |-> trace[i].op]

\* C19: for a managed-file reference the strategies are tried in the order
\* download, blob, read, content, data, URL, identifier lookup, each only if
\* the reference exposes it; the bytes returned are those of the first one
\* in that order that yields bytes, and none is used after it.  A reference
\* exposing only content or data, or only read, is resolved by that
\* strategy.  (Stated for references none of whose operations raises; what
\* an exception does is the matter of C20.)
C19_FirstStrategyWins ==
    (Acquired("object")
        /\ \A s \in {"download", "blob", "read"} : Outcome(s).t # "raise")
    => /\ \A i \in 1..Len(trace) : Exposed(trace[i].op)
       /\ Winner # 0
          => /\ ~error.raised
             /\ audio_data = BytesVal(Outcome(StrategyOrder[Winner]).v)
             /\ Ops = SelectSeq(SubSeq(StrategyOrder, 1, Winner), Exposed)

\* C20: an exception inside one strategy of a managed-file reference does
\* not end acquisition: when a strategy that was used raised, acquisition
\* fails only after every strategy the reference exposes has been used.
C20_ExceptionDoesNotAbort ==
    (Acquired("object") /\ \E i \in 1..Len(trace) : Outcome(trace[i].op).t = "raise")
    => /\ error.raised => \A i \in 1..Len(StrategyOrder) :
                            Exposed(StrategyOrder[i]) => \E j \in 1..Len(trace) :
                                trace[j].op = StrategyOrder[i]
       /\ (\E i \in 1..Len(StrategyOrder) : YieldsBytes(StrategyOrder[i]))
          => ~error.raised

\* the mapping the reference is, and the URL and identifier it carries
RefMap == tool_parameters.audio_file.d
MapUrl ==
    IF Get(RefMap, "remote_url", "") # "" THEN RefMap.remote_url
    ELSE Get(RefMap, "url", "")
MapId ==
    IF Get(RefMap, "related_id", "") # "" THEN RefMap.related_id
    ELSE Get(RefMap, "id", "")

\* C21: for a mapping that carries an absolute HTTP(S) URL and an
\* identifier, with a lookup capability in the runtime, the URL is fetched
\* before any identifier lookup, and the lookup is used only if the fetch
\* gave no bytes.
C21_MappingUrlBeforeId ==
    (Acquired("dict")
        /\ MapUrl \in {"http://host/a.wav", "HTTPS://host/a.wav"}
        /\ MapId # ""
        /\ \E i \in DOMAIN environ.accessors : environ.accessors[i].t # "absent")
    => /\ trace # <<>> /\ trace[1] = HttpGet(MapUrl)
       /\ environ.http_get.t = "bytes"
          => /\ ~error.raised
             /\ audio_data = BytesVal(environ.http_get.v)
             /\ \A i \in 1..Len(trace) : trace[i].op # "lookup"

\* the speech-to-text invocation acquired bytes and went on to normalize them
Normalizing ==
    /\ tool = "stt" /\ pc # "idle"
    /\ audio_data.t = "bytes" /\ audio_data.v.fmt # "empty"

\* the parses and transcodings of the invocation, in order
IsNormStep(op) == op \in {"parse", "transcode"}
NormOps == SelectSeq(Ops, IsNormStep)

\* C22: for input bytes that are a parseable 16-bit WAV, normalization
\* succeeds on the first parse, the request is sent with its PCM, and no
\* transcoding is done in the invocation.
C22_DirectParse ==
    (Normalizing /\ audio_data.v.fmt = "wav" /\ audio_data.v.width = 2)
    => /\ NormOps = <<"parse">>
       /\ ~(error.raised /\ response = NoResponse)
       /\ Len(requests) = 1
       /\ requests[1].data = pcm_data.samples

C22_Witness ==
    /\ Normalizing /\ audio_data = BytesVal(QuietWav) /\ environ.pydub
    /\ NormOps = <<"parse">>
    /\ Len(requests) = 1

Parsed == tool = "parse_wav" /\ pc = "done"
WavIn == tool_parameters.wav_data

\* C24: for every WAV whose sample width is not 16 bits the parse fails with
\* a format error before any frame is read and returns no PCM.
C24_Not16BitRejected ==
    (Parsed /\ WavIn.fmt = "wav" /\ WavIn.width # 2)
    => /\ error.raised /\ error.type = "ValueError"
       /\ Contains(error.msg, <<"Unsupported WAV sample width: ",
                                ToString(WavIn.width * 8),
                                " bits. Only 16-bit PCM supported">>)
       /\ trace = <<>>
       /\ pcm_data = NoPcm

C24_Witness ==
    /\ Parsed /\ WavIn.fmt = "wav" /\ WavIn.width = 3 /\ WavIn.channels = 2
    /\ error.raised /\ pcm_data = NoPcm /\ trace = <<>>

\* the length in bytes of the PCM: two bytes for each 16-bit sample
PcmByteLength == 2 * Len(pcm_data.samples)

\* C25: for every 16-bit mono or stereo WAV with frameCount frames the PCM
\* returned has 2 x frameCount bytes, after downmix and gain, a multiple
\* of 2.
C25_PcmLength ==
    (Parsed /\ WavIn.fmt = "wav" /\ WavIn.width = 2 /\ WavIn.channels \in {1, 2})
    => /\ ~error.raised
       /\ PcmByteLength = 2 * Len(WavIn.frames)
       /\ PcmByteLength % 2 = 0

C25_Witness ==
    /\ Parsed /\ WavIn.fmt = "wav" /\ WavIn.width = 2 /\ WavIn.channels = 2
    /\ Len(WavIn.frames) = 3
    /\ Len(pcm_data.samples) = 3
    /\ pcm_data.samples # Downmix(WavIn)

\* a 16-bit mono or stereo WAV has been parsed
Parsed16 ==
    Parsed /\ WavIn.fmt = "wav" /\ WavIn.width = 2 /\ WavIn.channels \in {1, 2}

\* the mono signal the gain is chosen from, and its RMS
MonoSignal == Downmix(WavIn)
MonoRms == Rms(MonoSignal)

\* the gain law as stated: 4 below 300, 2 from 300 to 999, 1 from 1000 on
StatedGain == IF MonoRms < QuietRms THEN 4 ELSE IF MonoRms < LowRms THEN 2 ELSE 1

\* C26: the gain applied by the parse depends on the RMS of the mono signal
\* only: 4 when RMS < 300, 2 when 300 <= RMS < 1000, 1 when RMS >= 1000,
\* the boundaries 0, 299, 300, 999 and 1000 included.
C26_GainLaw ==
    Parsed16
    => /\ ~error.raised
       /\ pcm_data.samples = [i \in 1..Len(MonoSignal) |-> Clip(MonoSignal[i] * StatedGain)]

\* C27: for all valid 16-bit samples the gain never produces a sample outside
\* [-32768, 32767]: a product beyond the range saturates to the nearest
\* bound and never wraps around.
C27_GainSaturates ==
    Parsed16
    => /\ ~error.raised
       /\ Len(pcm_data.samples) = Len(MonoSignal)
       /\ \A i \in 1..Len(MonoSignal) :
            LET product == MonoSignal[i] * Gain(MonoRms)
            IN  /\ pcm_data.samples[i] \in MinSample..MaxSample
                /\ product > MaxSample => pcm_data.samples[i] = MaxSample
                /\ product < MinSample => pcm_data.samples[i] = MinSample
                /\ product \in MinSample..MaxSample => pcm_data.samples[i] = product

C27_Witness ==
    /\ Parsed16 /\ ~error.raised
    /\ Gain(MonoRms) = 4
    /\ \E i \in 1..Len(MonoSignal) :
           /\ MonoSignal[i] * 4 < MinSample
           /\ pcm_data.samples[i] = MinSample

\* the WAV whose parse gave the PCM of the request: the input itself after a
\* direct parse, the transcoder's output otherwise
ParsedWav ==
    IF NormOps = <<"parse">> THEN audio_data.v
    ELSE convert_audio_to_wav(audio_data.v, environ.pydub).wav

CarriesProviderMessage(t) ==
    (Answered(t) /\ response.status_code # 200)
    => LET j == response.json
       IN  /\ error.raised
           /\ Contains(error.msg, <<"API error: ", ToString(response.status_code)>>)
           /\ (j.t = "dict" /\ j.m.error.t = "dict" /\ JTruthy(j.m.error.m.message))
              => Contains(error.msg, <<" - ">> \o j.m.error.m.message.v)
           /\ (j.t = "dict" /\ j.m.error.t # "dict" /\ JTruthy(j.m.message))
              => Contains(error.msg, <<" - ">> \o j.m.message.v)
           /\ (j.t = "dict" /\ j.m.error.t # "dict" /\ ~JTruthy(j.m.message)
                 /\ ~JTruthy(j.m.error_message) /\ j.m.details.t = "list")
              => Contains(error.msg, <<" - ">> \o Take(j.m.details.v, BodyCut))
           /\ j.t # "dict"
              => /\ Contains(error.msg, <<" - ">> \o Take(response.text, BodyCut))
                 /\ Len(response.text) > BodyCut => ~Contains(error.msg, response.text)

\* C29: for a non-200 answer of either endpoint the error text carries the
\* message of the provider, taken from whichever shape the JSON body has
\* (nested error.message, flat error_code/message, or details), and falls
\* back to the raw body, truncated, when the body cannot be parsed.
C29_ProviderErrorText ==
    CarriesProviderMessage("tts") /\ CarriesProviderMessage("stt")

====
